---- MODULE Spec2Model ----
(***************************************************************************)
(* Model of onedatarestfs: the REST client (onedata_file_client.py), the   *)
(* PyFilesystem adapter OnedataRESTFS and the file handle OnedataRESTFile  *)
(* (_onedatarestfs.py), together with the Oneprovider they talk to.        *)
(*                                                                         *)
(* A handler is computed by operators that thread a "world" record         *)
(*   w = [rem, cache, reqs, script, self, resolved]                        *)
(* through the calls the handler makes, in the order the code makes them:  *)
(*   rem    the provider's files,                                          *)
(*   cache  the lru_cache of get_provider_for_space,                       *)
(*   self   the client that makes the calls,                               *)
(*   resolved  how often the first client has chosen each space's provider,*)
(*   reqs   the requests sent so far by the running handler,               *)
(*   script what the service answers out of the ordinary (an error         *)
(*          response or read timeouts) and to which request.               *)
(* Every operator returns [w, exc, err, val]: the world after the call,    *)
(* the exception that left it ("none" when it returned), the REST error    *)
(* carried by an OnedataRESTError, and the returned value.                 *)
(***************************************************************************)
EXTENDS Integers, Sequences, FiniteSets, TLC

VARIABLES
    remote,     \* the provider: [tree, files, nextId]
    cache,      \* lru_cache of OnedataFileClient.get_provider_for_space
    made,       \* the filesystem objects (each with its client) made so far
    self,       \* the filesystem object the program is calling
    resolved,   \* for the record: how often the body of get_provider_for_space
                \* has run for the first client, by space
    fs_space,   \* OnedataRESTFS._space (0 stands for None)
    handles,    \* the OnedataRESTFile objects the program holds
    last,       \* the last call of the filesystem interface and how it ended
    ld,         \* the frame of a running listdir (its while loop)
    th          \* the frames of the threads running openbin

vars == <<remote, cache, made, self, resolved, fs_space, handles, last, ld, th>>

----------------------------------------------------------------------------
(* Bounds of the model *)

\* longest file content (and largest cursor) the model lets come about
MaxLen == 2
\* number of file identifiers the provider hands out
MaxId == 3
\* number of file handles the program holds at a time
MaxHandles == 1
\* names the model of listdir records before it stops recording
MaxResult == 4
\* consecutive read timeouts the service may answer with
MaxTimeouts == 5
\* times the choice of a space's provider is followed
MaxResolved == 2

----------------------------------------------------------------------------
(* Program constants *)

\* get_file_id(..., retries: int = 3)
DefaultRetries == 3
\* functools.lru_cache used bare (@lru_cache): maxsize defaults to 128
LruMaxSize == 128

----------------------------------------------------------------------------
(* Values *)

Max(a, b) == IF a >= b THEN a ELSE b
Min(a, b) == IF a <= b THEN a ELSE b

\* file names, in the order the provider lists them
Names == <<"d", "f">>
NameSet == {Names[i] : i \in 1..Len(Names)}

\* paths relative to a space, as token lists; <<>> is the space directory
RelPaths == {<<>>} \cup {<<n>> : n \in NameSet}
                   \cup {<<"d", n>> : n \in NameSet \ {"d"}}
\* file_path=None of the client: the space itself, addressed by the space id
NoPath == <<"None">>

\* the spaces of get_token_capabilities, test01 and test02, by number, and
\* the one provider that supports them
TreeSpaces == {1, 2}
Providers == {"p1"}
\* the filesystem objects the program may make: one more than the cache of
\* get_provider_for_space holds entries
NumClients == LruMaxSize + 1

\* no offset (offset=None): a number no cursor takes; no file id
NoOffset == 0 - (MaxLen + 1)
NoId == 0
\* the space directory is addressed by the space id
SpaceId(s) == 0 - s

FSErrors == {"FSError", "ResourceNotFound", "FileExists", "PermissionDenied",
             "DirectoryExpected", "InvalidCharsInPath", "FileExpected",
             "DirectoryExists", "DestinationExists", "ResourceInvalid"}

\* An error response: the HTTP status and, when the body parses, the error id
\* and details.errno ("none" when absent).
Err(http, cat, errno) == [http_code |-> http, error_category |-> cat, errno |-> errno]
NoErr == Err(200, "none", "none")
Posix(errno) == Err(400, "posix", errno)

Ok(w, v) == [w |-> w, exc |-> "none", err |-> NoErr, val |-> v]
Raise(w, e) == [w |-> w, exc |-> e, err |-> NoErr, val |-> 0]
RaiseRest(w, e) == [w |-> w, exc |-> "OnedataRESTError", err |-> e, val |-> 0]

----------------------------------------------------------------------------
(* The Oneprovider: what it holds and what it answers.                     *)
(* rem.tree[s][rel] is the file id at path rel of space s (NoId: nothing), *)
(* rem.files[id] its type ("REG", "DIR", or "NONE" once deleted) and       *)
(* content, rem.nextId the next id it hands out.                           *)

Parent(rel) == SubSeq(rel, 1, Len(rel) - 1)
IsPrefix(p, q) == Len(p) <= Len(q) /\ SubSeq(q, 1, Len(p)) = p

TreeAt(rem, s, rel) ==
    IF rel = <<>> THEN SpaceId(s)
    ELSE IF s \in TreeSpaces /\ rel \in DOMAIN rem.tree[s] THEN rem.tree[s][rel]
    ELSE NoId

TypeOf(rem, id) ==
    IF id < 0 THEN "DIR"
    ELSE IF id \in DOMAIN rem.files THEN rem.files[id].type
    ELSE "NONE"

ContentOf(rem, id) ==
    IF id \in DOMAIN rem.files THEN rem.files[id].content ELSE <<>>

Reply(rem, v) == [ok |-> TRUE, err |-> NoErr, rem |-> rem, val |-> v]
Refuse(rem, e) == [ok |-> FALSE, err |-> e, rem |-> rem, val |-> 0]

\* Why a path does not resolve: "ok", or the errno of the first component
\* that stops the walk.
RECURSIVE Walk(_, _, _, _)
Walk(rem, s, rel, k) ==
    IF k > Len(rel) THEN "ok"
    ELSE LET id == TreeAt(rem, s, SubSeq(rel, 1, k))
         IN  IF id = NoId THEN "enoent"
             ELSE IF k < Len(rel) /\ TypeOf(rem, id) # "DIR" THEN "enotdir"
             ELSE Walk(rem, s, rel, k + 1)

\* POST /lookup-file-id/{space}/{path}
RLookup(rem, s, rel) ==
    LET why == Walk(rem, s, rel, 1)
    IN  IF why = "ok" THEN Reply(rem, TreeAt(rem, s, rel))
        ELSE Refuse(rem, Posix(why))

\* GET /data/{id}
RAttrs(rem, id) ==
    IF TypeOf(rem, id) = "NONE" THEN Refuse(rem, Posix("enoent"))
    ELSE Reply(rem, [type |-> TypeOf(rem, id),
                     size |-> Len(ContentOf(rem, id))])

\* GET /data/{id}/content with Range: bytes=off-(off+size-1)
RContent(rem, id, off, size) ==
    LET c == ContentOf(rem, id)
    IN  IF TypeOf(rem, id) = "NONE" THEN Refuse(rem, Posix("enoent"))
        ELSE IF TypeOf(rem, id) = "DIR" THEN Refuse(rem, Posix("eisdir"))
        ELSE IF off >= Len(c) \/ off < 0 THEN Refuse(rem, Err(416, "none", "none"))
        ELSE Reply(rem, SubSeq(c, off + 1, Min(off + size, Len(c))))

\* The content after data is written at offset off: a hole is read as zeros.
Overlay(c, off, data) ==
    [i \in 1..Max(Len(c), off + Len(data)) |->
        IF i > off /\ i <= off + Len(data) THEN data[i - off]
        ELSE IF i <= Len(c) THEN c[i]
        ELSE 0]

\* PUT /data/{id}/content[?offset=off]; without offset the content is
\* replaced; an offset below zero is refused
RPut(rem, id, off, data) ==
    IF TypeOf(rem, id) = "NONE" THEN Refuse(rem, Posix("enoent"))
    ELSE IF TypeOf(rem, id) = "DIR" THEN Refuse(rem, Posix("eisdir"))
    ELSE IF off < 0 /\ off # NoOffset
        THEN Refuse(rem, Err(400, "badValueTooLow", "none"))
    ELSE Reply([rem EXCEPT !.files[id].content =
                    IF off = NoOffset THEN data ELSE Overlay(@, off, data)], 0)

\* PUT /data/{space_id}/path/{path}?type=...&create_parents=false
RCreate(rem, s, rel, type) ==
    IF rel = <<>> \/ Walk(rem, s, rel, 1) = "ok" THEN Refuse(rem, Posix("eexist"))
    ELSE IF Walk(rem, s, Parent(rel), 1) # "ok"
        THEN Refuse(rem, Posix(Walk(rem, s, Parent(rel), 1)))
    ELSE IF TypeOf(rem, TreeAt(rem, s, Parent(rel))) # "DIR"
        THEN Refuse(rem, Posix("enotdir"))
    ELSE IF ~(s \in TreeSpaces /\ rel \in DOMAIN rem.tree[s])
        THEN Refuse(rem, Posix("eperm"))
    ELSE Reply([rem EXCEPT !.tree[s][rel] = rem.nextId,
                           !.files[rem.nextId] = [type |-> type, content |-> <<>>],
                           !.nextId = @ + 1],
               rem.nextId)

\* The ids at or below path rel of space s.
Below(rem, s, rel) ==
    {rem.tree[s][q] : q \in {q \in DOMAIN rem.tree[s] : IsPrefix(rel, q)}} \ {NoId}

\* DELETE /data/{space_id}/path/{path}: a directory goes with what it holds
RDelete(rem, s, rel) ==
    IF Walk(rem, s, rel, 1) # "ok" THEN Refuse(rem, Posix(Walk(rem, s, rel, 1)))
    ELSE IF rel = <<>> \/ s \notin TreeSpaces THEN Refuse(rem, Posix("eperm"))
    ELSE Reply([rem EXCEPT
                  !.tree[s] = [q \in DOMAIN @ |-> IF IsPrefix(rel, q) THEN NoId ELSE @[q]],
                  !.files = [i \in DOMAIN @ |->
                                IF i \in Below(rem, s, rel)
                                THEN [type |-> "NONE", content |-> <<>>] ELSE @[i]]],
               0)

\* PUT /cdmi/{dst_space}/{dst_path} {"move": "{src_space}/{src_path}"}: the
\* file keeps its id; a file at the destination is replaced.
RMove(rem, ss, srel, ds, drel) ==
    IF Walk(rem, ss, srel, 1) # "ok" THEN Refuse(rem, Posix(Walk(rem, ss, srel, 1)))
    ELSE IF drel = <<>> \/ srel = <<>> THEN Refuse(rem, Posix("eperm"))
    ELSE IF Walk(rem, ds, Parent(drel), 1) # "ok"
        THEN Refuse(rem, Posix(Walk(rem, ds, Parent(drel), 1)))
    ELSE IF TypeOf(rem, TreeAt(rem, ds, Parent(drel))) # "DIR"
        THEN Refuse(rem, Posix("enotdir"))
    ELSE IF TypeOf(rem, TreeAt(rem, ss, srel)) # "REG"
              \/ TypeOf(rem, TreeAt(rem, ds, drel)) = "DIR"
              \/ ~(ds \in TreeSpaces /\ drel \in DOMAIN rem.tree[ds])
        THEN Refuse(rem, Posix("eperm"))
    ELSE IF ss = ds /\ srel = drel THEN Reply(rem, 0)
    ELSE LET id == TreeAt(rem, ss, srel)
             old == TreeAt(rem, ds, drel)
             t1 == [rem.tree EXCEPT ![ss][srel] = NoId]
             t2 == [t1 EXCEPT ![ds][drel] = id]
         IN  Reply([rem EXCEPT
                      !.tree = t2,
                      !.files = [i \in DOMAIN @ |->
                                    IF i = old /\ old # NoId
                                    THEN [type |-> "NONE", content |-> <<>>] ELSE @[i]]],
                   0)

\* The names in directory id, in the provider's order.
DirOf(rem, s, id) ==
    CHOOSE rel \in RelPaths : TreeAt(rem, s, rel) = id
ChildNames(rem, s, id) ==
    LET dir == DirOf(rem, s, id)
    IN  SelectSeq(Names, LAMBDA n : TreeAt(rem, s, Append(dir, n)) # NoId)

\* GET /data/{id}/children?attribute=...: the request names neither a limit
\* nor a page token, so the provider answers with the first page, of its own
\* limit.
RChildren(rem, s, id, limit) ==
    IF TypeOf(rem, id) = "NONE" THEN Refuse(rem, Posix("enoent"))
    ELSE IF TypeOf(rem, id) # "DIR" THEN Refuse(rem, Posix("enotdir"))
    ELSE LET all == ChildNames(rem, s, id)
         IN  Reply(rem, [children |-> SubSeq(all, 1, Min(limit, Len(all))),
                         isLast |-> Len(all) <= limit,
                         nextPageToken |-> Min(limit, Len(all))])

----------------------------------------------------------------------------
(* OnedataFileClient *)

\* A request as the service sees it: what is asked, of which host, for which
\* space and file id, at which offset, for how many bytes, with which body;
\* out is how it ended: "ok", "timeout" or "error".
Req(kind, host, s, id, off, n, data) ==
    [kind |-> kind, host |-> host, sp |-> s, fid |-> id, off |-> off,
     len |-> n, data |-> data, out |-> "ok"]

\* The script of the service: requests number at .. at+cnt-1 of the running
\* handler are answered with kind ("timeout" or the name of an error
\* response); every other request is served.
NoScript == [at |-> 0, kind |-> "ok", cnt |-> 0]
Outcome(script, n) ==
    IF script.at <= n /\ n < script.at + script.cnt THEN script.kind ELSE "ok"

\* The error responses a script may name.
ScriptErr(kind) ==
    CASE kind = "h404"    -> Err(404, "none", "none")
      [] kind = "h404posix" -> Err(404, "posix", "eexist")
      [] kind = "h416"    -> Err(416, "none", "none")
      [] kind = "h416posix" -> Err(416, "posix", "enoent")
      [] kind = "h500"    -> Err(500, "none", "none")
      [] kind = "enoent"  -> Posix("enoent")
      [] kind = "eexist"  -> Posix("eexist")
      [] kind = "eaccess" -> Posix("eaccess")
      [] kind = "eperm"   -> Posix("eperm")
      [] kind = "enotdir" -> Posix("enotdir")
      [] kind = "eacces"  -> Posix("eacces")
      [] kind = "badpath" -> Err(400, "badValueFilePath", "none")
      [] OTHER            -> Err(401, "unauthorized", "none")

\* send_request: the request goes out; a read timeout raises ReadTimeout, a
\* response that is not ok raises OnedataRESTError(response).
send_request(w, req, reply) ==
    LET out == Outcome(w.script, Len(w.reqs) + 1)
        w1 == [w EXCEPT !.reqs = Append(@,
                  [req EXCEPT !.out = IF out = "timeout" THEN "timeout"
                                      ELSE IF out # "ok" \/ ~reply.ok THEN "error"
                                      ELSE "ok"])]
    IN  IF out = "timeout" THEN Raise(w1, "ReadTimeout")
        ELSE IF out # "ok" THEN RaiseRest(w1, ScriptErr(out))
        ELSE IF ~reply.ok THEN RaiseRest(w1, reply.err)
        ELSE Ok([w1 EXCEPT !.rem = reply.rem], reply.val)

\* get_token_capabilities: the document written into the client: two spaces,
\* each supported by the one provider, and the provider's domain.
get_token_capabilities ==
    [spaces |-> [s \in TreeSpaces |-> [supports |-> Providers]],
     providers |-> [p \in Providers |-> [domain |-> p]]]

\* get_space_id: the id of the space of that name, None (NoId) without one.
\* Its lru_cache holds a value that never changes.
get_space_id(space_name) ==
    IF space_name \in DOMAIN get_token_capabilities.spaces
    THEN SpaceId(space_name) ELSE NoId

\* functools.lru_cache of a method: one cache for all the clients, its keys
\* (self, space_name), entries from the least to the most recently used.
LruIndex(c, key) ==
    IF \E i \in 1..Len(c) : c[i].k = key
    THEN CHOOSE i \in 1..Len(c) : c[i].k = key ELSE 0
LruWithout(c, i) == SubSeq(c, 1, i - 1) \o SubSeq(c, i + 1, Len(c))
LruTouch(c, i) == Append(LruWithout(c, i), c[i])
LruStore(c, key, v) ==
    Append(IF Len(c) >= LruMaxSize THEN Tail(c) ELSE c, [k |-> key, v |-> v])

\* v is computed once and K goes on with its value: K(v).
Bind(v, K(_)) == CHOOSE y \in {K(x) : x \in {v}} : TRUE
\* A call that raised ends the caller; one that returned goes on with K.
Continue(r, K(_)) == IF r.exc # "none" THEN r ELSE K(r)
Try(r, K(_)) == CHOOSE y \in {Continue(x, K) : x \in {r}} : TRUE

\* The body of get_provider_for_space: random.choice among the providers
\* that support the space, a list of one.
choose_provider(w, space_name) ==
    IF get_space_id(space_name) = NoId THEN Raise(w, "KeyError")
    ELSE Bind(get_token_capabilities.spaces[space_name].supports,
         LAMBDA provider_ids :
         Bind(CHOOSE p \in provider_ids : TRUE,
         LAMBDA provider_id :
             Ok([w EXCEPT !.resolved[space_name] =
                              IF w.self = 1 THEN @ + 1 ELSE @],
                get_token_capabilities.providers[provider_id].domain)))

\* get_provider_for_space (under @lru_cache): the cached value on a hit; on a
\* miss the body runs and what it returns is cached.
get_provider_for_space(w, space_name) ==
    Bind(LruIndex(w.cache, <<w.self, space_name>>), LAMBDA i :
        IF i # 0 THEN Ok([w EXCEPT !.cache = LruTouch(@, i)], w.cache[i].v)
        ELSE Try(choose_provider(w, space_name), LAMBDA d :
            Ok([d.w EXCEPT !.cache = LruStore(@, <<w.self, space_name>>, d.val)],
               d.val)))

\* op_url: the provider's host the URL is built on.
op_url(w, space_name) == get_provider_for_space(w, space_name)

\* get_file_id as it would be if it tried again after every read timeout
RECURSIVE get_file_id_retrying(_, _, _, _)
get_file_id_retrying(w, space_name, file_path, retries) ==
    Try(op_url(w, space_name), LAMBDA u :
    Bind(send_request(u.w, Req("lookup", u.val, space_name, NoId, NoOffset, 0, <<>>),
                      RLookup(u.w.rem, space_name, file_path)),
    LAMBDA r :
        IF r.exc = "ReadTimeout"
        THEN get_file_id_retrying(r.w, space_name, file_path, retries - 1)
        ELSE r))

\* get_file_id: POST lookup-file-id; a read timeout is tried again while
\* retries are left.
RECURSIVE get_file_id(_, _, _, _)
get_file_id(w, space_name, file_path, retries) ==
    Try(op_url(w, space_name), LAMBDA u :
    Bind(send_request(u.w, Req("lookup", u.val, space_name, NoId, NoOffset, 0, <<>>),
                      RLookup(u.w.rem, space_name, file_path)),
    LAMBDA r :
        IF r.exc = "ReadTimeout" /\ retries > 0
        THEN get_file_id(r.w, space_name, file_path, retries - 1)
        ELSE r))

\* The file id a request is made with: the one given, or the space id
\* (file_path None), or the one looked up.
file_id_of(w, space_name, file_path, file_id) ==
    IF file_id # NoId THEN Ok(w, file_id)
    ELSE IF file_path = NoPath THEN Ok(w, get_space_id(space_name))
    ELSE get_file_id(w, space_name, file_path, DefaultRetries)

\* get_attributes: GET /data/{id}.
get_attributes(w, space_name, file_path, file_id) ==
    Try(file_id_of(w, space_name, file_path, file_id), LAMBDA l :
    Try(op_url(l.w, space_name), LAMBDA u :
        send_request(u.w, Req("attrs", u.val, space_name, l.val, NoOffset, 0, <<>>),
                     RAttrs(u.w.rem, l.val))))

\* set_attributes: after the lookup, self._client of a client that has no
\* such attribute: AttributeError, and no PUT.
set_attributes(w, space_name, file_path) ==
    Try(get_file_id(w, space_name, file_path, DefaultRetries), LAMBDA l :
        Raise(l.w, "AttributeError"))

\* readdir: limit and continuation_token are taken and not sent.
readdir(w, space_name, file_path, limit, continuation_token, served) ==
    Try(file_id_of(w, space_name, file_path, NoId), LAMBDA l :
    Try(op_url(l.w, space_name), LAMBDA u :
        send_request(u.w, Req("children", u.val, space_name, l.val, NoOffset, 0, <<>>),
                     RChildren(u.w.rem, space_name, l.val, served))))

\* get_file_content by file id: a ranged GET.
get_file_content(w, space_name, offset, size, file_id) ==
    Try(op_url(w, space_name), LAMBDA u :
        send_request(u.w, Req("content", u.val, space_name, file_id, offset, size, <<>>),
                     RContent(u.w.rem, file_id, offset, size)))

\* put_file_content: one PUT, with ?offset= unless offset is None.
put_file_content(w, space_name, file_id, offset, data) ==
    Try(op_url(w, space_name), LAMBDA u :
        send_request(u.w, Req("put", u.val, space_name, file_id, offset, Len(data), data),
                     RPut(u.w.rem, file_id, offset, data)))

\* create_file: PUT /data/{space_id}/path/{file_path}?type=...
create_file(w, space_name, file_path, file_type) ==
    Try(op_url(w, space_name), LAMBDA u :
        send_request(u.w, Req("create", u.val, space_name, NoId, NoOffset, 0, <<>>),
                     RCreate(u.w.rem, space_name, file_path, file_type)))

\* OnedataFileClient.remove: the attributes are fetched, then DELETE by path.
client_remove(w, space_name, file_path) ==
    Try(get_attributes(w, space_name, file_path, NoId), LAMBDA a :
    Try(op_url(a.w, space_name), LAMBDA u :
        send_request(u.w, Req("delete", u.val, space_name, NoId, NoOffset, 0, <<>>),
                     RDelete(u.w.rem, space_name, file_path))))

\* OnedataFileClient.move: one CDMI PUT to the provider of the destination.
client_move(w, src_space_name, src_file_path, dst_space_name, dst_file_path) ==
    Try(get_provider_for_space(w, dst_space_name), LAMBDA u :
        send_request(u.w, Req("move", u.val, dst_space_name, NoId, NoOffset, 0, <<>>),
                     RMove(u.w.rem, src_space_name, src_file_path,
                           dst_space_name, dst_file_path)))

----------------------------------------------------------------------------
(* to_fserror and the helpers of fs.base.FS the adapter calls *)

\* to_fserror with the error body looked at before the status code.
to_fserror_body_first(e, request) ==
    IF e.error_category = "posix" /\ e.errno = "enoent" THEN "ResourceNotFound"
    ELSE IF e.error_category = "posix" /\ e.errno = "eexist" THEN "FileExists"
    ELSE IF e.error_category = "posix" /\ e.errno = "eaccess" THEN "PermissionDenied"
    ELSE IF e.error_category = "posix" /\ e.errno = "eperm" THEN "PermissionDenied"
    ELSE IF e.error_category = "posix" /\ e.errno = "enotdir"
        THEN IF request = "get_attributes" THEN "ResourceNotFound"
             ELSE "DirectoryExpected"
    ELSE IF e.error_category = "badValueFilePath" THEN "InvalidCharsInPath"
    ELSE IF e.http_code = 404 THEN "ResourceNotFound"
    ELSE IF e.http_code = 416 THEN "FSError"
    ELSE "None"

\* to_fserror(e, msg, request): the filesystem error for a REST error, or
\* "None" when the function falls off its end.
to_fserror(e, request) ==
    IF e.http_code = 404 THEN "ResourceNotFound"
    ELSE IF e.http_code = 416 THEN "FSError"
    ELSE IF e.error_category = "posix" /\ e.errno = "enoent" THEN "ResourceNotFound"
    ELSE IF e.error_category = "posix" /\ e.errno = "eexist" THEN "FileExists"
    ELSE IF e.error_category = "posix" /\ e.errno = "eaccess" THEN "PermissionDenied"
    ELSE IF e.error_category = "posix" /\ e.errno = "eperm" THEN "PermissionDenied"
    ELSE IF e.error_category = "posix" /\ e.errno = "enotdir"
        THEN IF request = "get_attributes" THEN "ResourceNotFound"
             ELSE "DirectoryExpected"
    ELSE IF e.error_category = "badValueFilePath" THEN "InvalidCharsInPath"
    ELSE "None"

\* raise to_fserror(...): raising None is a TypeError.
raise_to_fserror(w, e, request) ==
    IF to_fserror(e, request) = "None" THEN Raise(w, "TypeError")
    ELSE Raise(w, to_fserror(e, request))

\* A path of the filesystem: the space token (0 when the path has none, as
\* always under a filesystem opened on one space) and the tokens after it.
FsPath(sp, rel) == [sp |-> sp, rel |-> rel]
dirname(path) ==
    IF path.rel # <<>> THEN FsPath(path.sp, Parent(path.rel)) ELSE FsPath(0, <<>>)

\* _split_space_path: (space_name, file_path), or ResourceInvalid for the
\* root of a filesystem that is not opened on one space.
split_space_path(path) ==
    IF fs_space # 0 THEN [exc |-> "none", space |-> fs_space, path |-> path.rel]
    ELSE IF path.sp = 0 THEN [exc |-> "ResourceInvalid", space |-> 0, path |-> <<>>]
    ELSE IF path.rel = <<>> THEN [exc |-> "none", space |-> path.sp, path |-> NoPath]
    ELSE [exc |-> "none", space |-> path.sp, path |-> path.rel]

----------------------------------------------------------------------------
(* OnedataRESTFS *)

\* getinfo: the attributes of the path; a REST error is mapped with
\* request='get_attributes'.
getinfo(w, path) ==
    Bind(split_space_path(path), LAMBDA sp :
        IF sp.exc # "none" THEN Raise(w, sp.exc)
        ELSE Bind(get_attributes(w, sp.space, sp.path, NoId), LAMBDA a :
            IF a.exc = "OnedataRESTError"
            THEN raise_to_fserror(a.w, a.err, "get_attributes")
            ELSE a))

\* fs.base.FS.exists: getinfo, with ResourceNotFound taken as False.
exists(w, path) ==
    Bind(getinfo(w, path), LAMBDA g :
        IF g.exc = "ResourceNotFound" THEN Ok(g.w, FALSE)
        ELSE IF g.exc = "none" THEN Ok(g.w, TRUE)
        ELSE g)

\* fs.base.FS.isdir: getinfo(path).is_dir, with ResourceNotFound taken as False.
isdir(w, path) ==
    Bind(getinfo(w, path), LAMBDA g :
        IF g.exc = "ResourceNotFound" THEN Ok(g.w, FALSE)
        ELSE IF g.exc = "none" THEN Ok(g.w, g.val.type = "DIR")
        ELSE g)

\* fs.base.FS.opendir: DirectoryExpected unless getinfo(path).is_dir.
opendir(w, path) ==
    Try(getinfo(w, path), LAMBDA g :
        IF g.val.type # "DIR" THEN Raise(g.w, "DirectoryExpected")
        ELSE Ok(g.w, 0))

\* makedir(path, permissions, recreate)
makedir(w, path, recreate) ==
    Bind(split_space_path(path), LAMBDA sp :
        IF sp.exc # "none" THEN Raise(w, sp.exc)
        ELSE IF sp.path = <<>>
            THEN IF recreate THEN opendir(w, path) ELSE Raise(w, "DirectoryExists")
        ELSE Try(exists(w, path), LAMBDA e :
            IF e.val
            THEN IF ~recreate THEN Raise(e.w, "DirectoryExists")
                 ELSE opendir(e.w, path)
            ELSE Try(getinfo(e.w, dirname(path)), LAMBDA attr :
                IF attr.val.type # "DIR" THEN Raise(attr.w, "DirectoryExpected")
                ELSE Try(create_file(attr.w, sp.space, sp.path, "DIR"), LAMBDA c :
                    opendir(c.w, path)))))

\* remove(path)
remove(w, path) ==
    Try(getinfo(w, path), LAMBDA info :
        IF info.val.type = "DIR" THEN Raise(info.w, "FileExpected")
        ELSE Bind(split_space_path(path), LAMBDA sp :
            client_remove(info.w, sp.space, sp.path)))

\* removedir(path)
removedir(w, path) ==
    Try(getinfo(w, path), LAMBDA info :
        IF info.val.type # "DIR" THEN Raise(info.w, "FileExpected")
        ELSE Bind(split_space_path(path), LAMBDA sp :
            client_remove(info.w, sp.space, sp.path)))

\* setinfo(path, info); permissions: info names access.permissions
setinfo(w, path, permissions) ==
    Try(exists(w, path), LAMBDA e :
        IF ~e.val THEN Raise(e.w, "ResourceNotFound")
        ELSE IF permissions
            THEN Bind(split_space_path(path), LAMBDA sp :
                set_attributes(e.w, sp.space, sp.path))
        ELSE Ok(e.w, 0))

\* move(src_path, dst_path, overwrite)
move(w, src_path, dst_path, overwrite) ==
    Try(exists(w, src_path), LAMBDA e1 :
    IF ~e1.val THEN Raise(e1.w, "ResourceNotFound")
    ELSE Try(exists(e1.w, dirname(dst_path)), LAMBDA e2 :
    IF ~e2.val THEN Raise(e2.w, "ResourceNotFound")
    ELSE Try(isdir(e2.w, src_path), LAMBDA d :
    IF d.val THEN Raise(d.w, "FileExpected")
    ELSE Try(IF overwrite THEN Ok(d.w, FALSE) ELSE exists(d.w, dst_path), LAMBDA e3 :
    IF e3.val THEN Raise(e3.w, "DestinationExists")
    ELSE Bind(split_space_path(src_path), LAMBDA s :
         Bind(split_space_path(dst_path), LAMBDA t :
        IF t.exc # "none" THEN Raise(e3.w, t.exc)
        \* FS.move(src_path, dst_path): the unbound method, one argument short
        ELSE IF s.space # t.space THEN Raise(e3.w, "TypeError")
        ELSE client_move(e3.w, s.space, s.path, t.space, t.path)))))))

(* OnedataRESTFile *)

\* fs.mode.Mode of the mode strings the model opens files with
Modes == {"r", "r+", "w", "a"}
Reading(mode) == mode \in {"r", "r+"}
Writing(mode) == mode \in {"r+", "w", "a"}
Appending(mode) == mode = "a"
\* 'w' in mode or 'a' in mode
Creating(mode) == mode \in {"w", "a"}

\* size=None
NoSize == 0 - 1
\* fs.enums.Seek
SeekSet == 0
SeekCurrent == 1
SeekEnd == 2

\* A handle: the fields of OnedataRESTFile, and for the record the path it
\* was opened at and whether another client has appended to its file since.
NoHandle ==
    [open |-> FALSE, file_id |-> NoId, space_name |-> 0, pos |-> 0, mode |-> "r",
     path |-> FsPath(0, <<>>), grown |-> FALSE]

\* What a method of the handle returns: the result and the handle after it.
With(r, h) == [w |-> r.w, exc |-> r.exc, err |-> r.err, val |-> r.val, h |-> h]

\* A method that raised leaves the handle h; one that returned goes on.
ContinueH(r, h, K(_)) == IF r.exc # "none" THEN With(r, h) ELSE K(r)
TryH(r, h, K(_)) == CHOOSE y \in {ContinueH(x, h, K) : x \in {r}} : TRUE

\* OnedataRESTFile.__init__: in append mode the cursor starts at the size.
file_init(w, space_name, file_id, mode, path) ==
    Bind([open |-> TRUE, file_id |-> file_id, space_name |-> space_name,
          pos |-> 0, mode |-> mode, path |-> path, grown |-> FALSE],
    LAMBDA h :
        IF ~Appending(mode) THEN With(Ok(w, 0), h)
        ELSE TryH(get_attributes(w, space_name, NoPath, file_id), NoHandle,
             LAMBDA a : With(Ok(a.w, 0), [h EXCEPT !.pos = a.val.size])))

\* min(file_size - self.pos, size), size being file_size when negative
available(file_size, pos, size) ==
    Min(file_size - pos, IF size < 0 THEN file_size ELSE size)

\* read as it would be if it resolved the path of the handle at every call
read_by_path(w, h, size) ==
    IF ~Reading(h.mode) THEN With(Raise(w, "IOError"), h)
    ELSE IF size = 0 THEN With(Ok(w, <<>>), h)
    ELSE TryH(get_attributes(w, h.space_name, h.path.rel, NoId), h, LAMBDA a :
        IF available(a.val.size, h.pos, size) <= 0 THEN With(Ok(a.w, <<>>), h)
        ELSE TryH(get_file_id(a.w, h.space_name, h.path.rel, DefaultRetries), h,
             LAMBDA l :
             TryH(get_file_content(l.w, h.space_name, h.pos,
                                   available(a.val.size, h.pos, size), l.val), h,
             LAMBDA c : With(c, [h EXCEPT !.pos = @ + Len(c.val)]))))

\* read as it would be if it asked for the bytes without asking for the size
read_without_fetch(w, h, size) ==
    IF ~Reading(h.mode) THEN With(Raise(w, "IOError"), h)
    ELSE IF size = 0 THEN With(Ok(w, <<>>), h)
    ELSE Bind(get_file_content(w, h.space_name, h.pos,
                               IF size < 0 THEN MaxLen ELSE size, h.file_id),
         LAMBDA c :
            IF c.exc = "OnedataRESTError"
                THEN With(raise_to_fserror(c.w, c.err, "None"), h)
            ELSE IF c.exc # "none" THEN With(c, h)
            ELSE With(c, [h EXCEPT !.pos = @ + Len(c.val)]))

\* read as it would be if it left the cursor where it was
read_keeping_cursor(w, h, size) ==
    IF ~Reading(h.mode) THEN With(Raise(w, "IOError"), h)
    ELSE IF size = 0 THEN With(Ok(w, <<>>), h)
    ELSE TryH(get_attributes(w, h.space_name, NoPath, h.file_id), h, LAMBDA a :
        IF available(a.val.size, h.pos, size) <= 0 THEN With(Ok(a.w, <<>>), h)
        ELSE Bind(get_file_content(a.w, h.space_name, h.pos,
                                   available(a.val.size, h.pos, size), h.file_id),
             LAMBDA c :
                IF c.exc = "OnedataRESTError"
                    THEN With(raise_to_fserror(c.w, c.err, "None"), h)
                ELSE With(c, h)))

\* read(size)
read(w, h, size) ==
    IF ~Reading(h.mode) THEN With(Raise(w, "IOError"), h)
    ELSE IF size = 0 THEN With(Ok(w, <<>>), h)
    ELSE TryH(get_attributes(w, h.space_name, NoPath, h.file_id), h, LAMBDA a :
        IF available(a.val.size, h.pos, size) <= 0 THEN With(Ok(a.w, <<>>), h)
        ELSE Bind(get_file_content(a.w, h.space_name, h.pos,
                                   available(a.val.size, h.pos, size), h.file_id),
             LAMBDA c :
                IF c.exc = "OnedataRESTError"
                    THEN With(raise_to_fserror(c.w, c.err, "None"), h)
                ELSE IF c.exc # "none" THEN With(c, h)
                ELSE With(c, [h EXCEPT !.pos = @ + Len(c.val)])))

\* write as it would be with a buffer written back later: no request yet
write_buffered(w, h, data) ==
    IF ~Writing(h.mode) THEN With(Raise(w, "IOError"), h)
    ELSE With(Ok(w, 0), [h EXCEPT !.pos = @ + Len(data)])

\* write as it would be if it asked for the size before the PUT
write_after_size_fetch(w, h, data) ==
    IF ~Writing(h.mode) THEN With(Raise(w, "IOError"), h)
    ELSE TryH(get_attributes(w, h.space_name, NoPath, h.file_id), h, LAMBDA a :
         TryH(put_file_content(a.w, h.space_name, h.file_id, h.pos, data), h,
         LAMBDA p : With(p, [h EXCEPT !.pos = @ + Len(data)])))

\* write(data)
write(w, h, data) ==
    IF ~Writing(h.mode) THEN With(Raise(w, "IOError"), h)
    ELSE TryH(put_file_content(w, h.space_name, h.file_id, h.pos, data), h,
         LAMBDA p : With(p, [h EXCEPT !.pos = @ + Len(data)]))

Zeros(n) == [i \in 1..n |-> 0]

\* truncate(size)
truncate(w, h, size) ==
    Bind(IF size = NoSize THEN h.pos ELSE size, LAMBDA sz :
        IF sz = 0
        THEN TryH(put_file_content(w, h.space_name, h.file_id, NoOffset, <<>>), h,
             LAMBDA p : With(p, [h EXCEPT !.pos = 0]))
        ELSE TryH(get_attributes(w, h.space_name, NoPath, h.file_id), h, LAMBDA a :
            IF sz < a.val.size
            THEN Bind(read(a.w, [h EXCEPT !.pos = 0], sz), LAMBDA rd :
                IF rd.exc # "none" THEN rd
                ELSE TryH(put_file_content(rd.w, h.space_name, h.file_id,
                                           NoOffset, rd.val), rd.h,
                     LAMBDA p : With(p, [h EXCEPT !.pos = sz])))
            ELSE With(put_file_content(a.w, h.space_name, h.file_id, a.val.size,
                                       Zeros(sz - a.val.size)), h)))

\* seek(pos, whence)
seek(w, h, pos, whence) ==
    IF whence \notin {SeekSet, SeekCurrent, SeekEnd}
        THEN With(Raise(w, "ValueError"), h)
    ELSE IF whence \in {SeekCurrent, SeekSet} /\ pos < 0
        THEN With(Raise(w, "ValueError"), h)
    ELSE IF whence = SeekEnd /\ pos > 0
        THEN With(Raise(w, "ValueError"), h)
    ELSE IF whence = SeekSet THEN With(Ok(w, pos), [h EXCEPT !.pos = pos])
    ELSE IF whence = SeekCurrent
        THEN With(Ok(w, h.pos + pos), [h EXCEPT !.pos = @ + pos])
    ELSE TryH(get_attributes(w, h.space_name, NoPath, h.file_id), h, LAMBDA a :
        With(Ok(a.w, a.val.size + pos), [h EXCEPT !.pos = a.val.size + pos]))

\* openbin, its first check: FileExpected when the path is a directory.
openbin_check(w, path) ==
    Try(exists(w, path), LAMBDA e :
    Try(IF e.val THEN getinfo(e.w, path) ELSE e, LAMBDA g :
        IF e.val /\ g.val.type = "DIR" THEN Raise(g.w, "FileExpected")
        ELSE Ok(g.w, 0)))

\* ('w' in mode or 'a' in mode) and not self.exists(path)
openbin_missing(w, path, mode) ==
    IF ~Creating(mode) THEN Ok(w, FALSE)
    ELSE Try(exists(w, path), LAMBDA e : Ok(e.w, ~e.val))

\* if not self.exists(dirname(path)): raise ResourceNotFound
openbin_parent(w, path) ==
    Try(exists(w, dirname(path)), LAMBDA e :
        IF ~e.val THEN Raise(e.w, "ResourceNotFound") ELSE e)

\* except OnedataRESTError as e: raise to_fserror(e, path)
openbin_except(r) ==
    IF r.exc = "OnedataRESTError" THEN raise_to_fserror(r.w, r.err, "None") ELSE r

\* self._client.create_file(space_name, file_path), in the try block
openbin_create(w, sp) == openbin_except(create_file(w, sp.space, sp.path, "REG"))

\* file_id = self._client.get_file_id(space_name, file_path), in the try block
openbin_lookup(w, sp) ==
    openbin_except(get_file_id(w, sp.space, sp.path, DefaultRetries))

\* return OnedataRESTFile(self, get_provider_for_space(space_name), ...)
openbin_return(w, sp, file_id, mode, path) ==
    TryH(get_provider_for_space(w, sp.space), NoHandle, LAMBDA u :
        file_init(u.w, sp.space, file_id, mode, path))

\* openbin(path, mode)
openbin(w, path, mode) ==
    TryH(openbin_check(w, path), NoHandle, LAMBDA g :
    Bind(split_space_path(path), LAMBDA sp :
        IF sp.exc # "none" THEN With(Raise(g.w, sp.exc), NoHandle)
        ELSE TryH(openbin_missing(g.w, path, mode), NoHandle, LAMBDA m :
             TryH(IF m.val
                  THEN Try(openbin_parent(m.w, path), LAMBDA p :
                           openbin_create(p.w, sp))
                  ELSE m, NoHandle, LAMBDA c :
             TryH(openbin_lookup(c.w, sp), NoHandle, LAMBDA l :
                 openbin_return(l.w, sp, l.val, mode, path))))))

----------------------------------------------------------------------------
(* The state and the calls of the filesystem interface *)

\* the inputs the calls are made with
FsPaths == IF fs_space # 0 THEN {FsPath(0, rel) : rel \in RelPaths}
           ELSE {FsPath(0, <<>>)} \cup {FsPath(s, <<>>) : s \in TreeSpaces}
                \cup {FsPath(s, <<"f">>) : s \in TreeSpaces}
                \cup {FsPath(s, <<"d", "f">>) : s \in TreeSpaces}
WriteData == {<<2>>, <<1, 2>>}
ReadSizes == {0 - 1, 0, 1, 2}
TruncateSizes == {NoSize} \cup 0..MaxLen
SeekArgs == [pos : (0 - MaxLen)..MaxLen, whence : {SeekSet, SeekCurrent, SeekEnd, 3}]
Slots == 1..MaxHandles
TheFile == FsPath(0, <<"f">>)
Moved == FsPath(0, <<"d", "f">>)

World(script) ==
    [rem |-> remote, cache |-> cache, reqs |-> <<>>, script |-> script,
     self |-> self, resolved |-> resolved]

NoLast ==
    [op |-> "none", path |-> FsPath(0, <<>>), slot |-> 0, arg |-> 0, data |-> <<>>,
     exc |-> "none", ret |-> <<>>, reqs |-> <<>>, script |-> NoScript,
     before |-> NoHandle, content |-> <<>>]

IdleLd == [pc |-> "idle", path |-> FsPath(0, <<>>), result |-> <<>>,
           token |-> 0, reqs |-> <<>>, script |-> NoScript, served |-> 0,
           turn |-> 0]
IdleFrame == [pc |-> "idle", path |-> FsPath(0, <<>>), mode |-> "r",
              fresh |-> FALSE, exc |-> "none", file_id |-> NoId]
Threads == 1..2

\* What the model lets come about: ids, content lengths and cursors in bounds.
InBounds(w, hs) ==
    /\ w.rem.nextId <= MaxId + 1
    /\ \A i \in DOMAIN w.rem.files : Len(w.rem.files[i].content) <= MaxLen
    /\ \A k \in DOMAIN hs : hs[k].pos <= MaxLen /\ hs[k].pos >= 0 - MaxLen
    /\ \A s \in DOMAIN w.resolved : w.resolved[s] <= MaxResolved

\* What a handler leaves of the provider and of the client.
Leaves(w) ==
    /\ remote' = w.rem
    /\ cache' = w.cache
    /\ resolved' = w.resolved

\* A call ended: the world it leaves, and the record of the call.
Finish(r, rec, hs) ==
    /\ InBounds(r.w, hs)
    /\ Leaves(r.w)
    /\ handles' = hs
    /\ last' = [rec EXCEPT !.exc = r.exc, !.reqs = r.w.reqs, !.script = r.w.script]
    /\ UNCHANGED <<made, self, fs_space, ld, th>>

Idle == ld.pc = "idle" /\ \A t \in Threads : th[t].pc = "idle"

Init ==
    /\ remote = [tree |-> [s \in TreeSpaces |->
                             [rel \in RelPaths \ {<<>>} |->
                                 IF s = 1 /\ rel = <<"d">> THEN 1
                                 ELSE IF s = 1 /\ rel = <<"f">> THEN 2
                                 ELSE NoId]],
                 files |-> [i \in 1..MaxId |->
                             IF i = 1 THEN [type |-> "DIR", content |-> <<>>]
                             ELSE IF i = 2 THEN [type |-> "REG", content |-> <<1>>]
                             ELSE [type |-> "NONE", content |-> <<>>]],
                 nextId |-> 3]
    /\ cache = <<>>
    /\ made = 1
    /\ self = 1
    /\ resolved = [s \in TreeSpaces |-> 0]
    /\ fs_space = 1
    /\ handles = [k \in Slots |-> NoHandle]
    /\ last = NoLast
    /\ ld = IdleLd
    /\ th = [t \in Threads |-> IdleFrame]

\* The record of a call of the filesystem at a path.
FsCall(op, path) == [NoLast EXCEPT !.op = op, !.path = path]

getinfo_ends(path, r) ==
    Finish(r, [FsCall("getinfo", path) EXCEPT
                   !.arg = IF r.exc = "none" THEN r.val.size ELSE 0], handles)
Getinfo(path, script) ==
    /\ Idle
    /\ getinfo_ends(path, getinfo(World(script), path))

Makedir(path, recreate, script) ==
    /\ Idle
    /\ Finish(makedir(World(script), path, recreate), FsCall("makedir", path),
              handles)

\* Slot 0 of openbin: the program drops the handle it gets.
openbin_ends(k, path, mode, r) ==
    Finish(r, [FsCall("openbin", path) EXCEPT !.slot = k, !.data = <<mode>>],
           IF r.exc = "none" /\ k \in Slots
           THEN [handles EXCEPT ![k] = r.h] ELSE handles)
Openbin(k, path, mode, script) ==
    /\ Idle
    /\ openbin_ends(k, path, mode, openbin(World(script), path, mode))

Remove(path, script) ==
    /\ Idle
    /\ Finish(remove(World(script), path), FsCall("remove", path), handles)

Removedir(path, script) ==
    /\ Idle
    /\ Finish(removedir(World(script), path), FsCall("removedir", path), handles)

Setinfo(path, permissions, script) ==
    /\ Idle
    /\ Finish(setinfo(World(script), path, permissions), FsCall("setinfo", path),
              handles)

Move(src, dst, overwrite, script) ==
    /\ Idle
    /\ Finish(move(World(script), src, dst, overwrite),
              [FsCall("move", src) EXCEPT
                  !.content = ContentOf(remote, TreeAt(remote,
                                  split_space_path(src).space, src.rel))],
              handles)

\* The client's get_file_id called for a path of the space.
get_file_id_ends(path, r) ==
    Finish(r, [FsCall("get_file_id", path) EXCEPT
                   !.arg = IF r.exc = "none" THEN r.val ELSE NoId], handles)
GetFileId(path, script) ==
    /\ Idle
    /\ get_file_id_ends(path, get_file_id(World(script), split_space_path(path).space,
                                          path.rel, DefaultRetries))

\* The record of a call on handle k.
HandleCall(op, k, arg, data) ==
    [NoLast EXCEPT !.op = op, !.slot = k, !.arg = arg, !.data = data,
                   !.before = handles[k],
                   !.content = ContentOf(remote, handles[k].file_id)]

\* A call on handle k ended: the handle is as the method left it.
handle_ends(k, rec, r) ==
    Finish(r, [rec EXCEPT !.ret = IF r.exc = "none" /\ rec.op = "read"
                                  THEN r.val ELSE <<>>],
           [handles EXCEPT ![k] = r.h])

Read(k, size, script) ==
    /\ Idle
    /\ handles[k].open
    /\ handle_ends(k, HandleCall("read", k, size, <<>>),
                   read(World(script), handles[k], size))

Write(k, data, script) ==
    /\ Idle
    /\ handles[k].open
    /\ handle_ends(k, HandleCall("write", k, 0, data),
                   write(World(script), handles[k], data))

Truncate(k, size, script) ==
    /\ Idle
    /\ handles[k].open
    /\ handle_ends(k, HandleCall("truncate", k, size, <<>>),
                   truncate(World(script), handles[k], size))

Seek(k, a, script) ==
    /\ Idle
    /\ handles[k].open
    /\ handle_ends(k, HandleCall("seek", k, a.pos, <<a.whence>>),
                   seek(World(script), handles[k], a.pos, a.whence))

\* Another client of the provider appends a byte to a file.
RemoteAppend(id, b) ==
    /\ Idle
    /\ TypeOf(remote, id) = "REG"
    /\ Len(ContentOf(remote, id)) < MaxLen
    /\ remote' = [remote EXCEPT !.files[id].content = Append(@, b)]
    /\ handles' = [k \in DOMAIN handles |->
                      IF handles[k].open /\ handles[k].file_id = id
                      THEN [handles[k] EXCEPT !.grown = TRUE] ELSE handles[k]]
    /\ last' = [NoLast EXCEPT !.op = "remote_append", !.arg = id]
    /\ UNCHANGED <<cache, made, self, resolved, fs_space, ld, th>>

\* list_spaces: the names of the spaces of get_token_capabilities
list_spaces == <<1, 2>>

\* The while loop of listdir goes on (or begins): what it has so far.
listdir_loops(w, frame) ==
    /\ InBounds(w, handles)
    /\ Leaves(w)
    /\ ld' = frame
    /\ UNCHANGED <<made, self, fs_space, handles, th>>

\* listdir, up to its while loop: the spaces for the root of a filesystem not
\* opened on one space; DirectoryExpected unless the path is a directory.
\* served is the number of children the provider puts on a page.
listdir_starts(path, script, served, g) ==
    IF g.exc # "none" THEN Finish(g, FsCall("listdir", path), handles)
    ELSE IF g.val.type # "DIR"
        THEN Finish(Raise(g.w, "DirectoryExpected"), FsCall("listdir", path), handles)
    ELSE /\ listdir_loops(g.w, [IdleLd EXCEPT !.pc = "loop", !.path = path,
                                    !.reqs = g.w.reqs, !.script = script,
                                    !.served = served])
         /\ last' = [FsCall("listdir", path) EXCEPT !.exc = "running"]
ListdirStart(path, script, served) ==
    /\ Idle
    /\ IF fs_space = 0 /\ path = FsPath(0, <<>>)
       THEN Finish(Ok(World(script), 0),
                   [FsCall("listdir", path) EXCEPT !.ret = list_spaces], handles)
       ELSE listdir_starts(path, script, served, getinfo(World(script), path))

\* listdir ended, with an exception or with the names.
listdir_ends(r, ret) ==
    /\ InBounds(r.w, handles)
    /\ Leaves(r.w)
    /\ last' = [FsCall("listdir", ld.path) EXCEPT
                   !.exc = r.exc, !.reqs = r.w.reqs, !.script = r.w.script,
                   !.ret = ret]
    /\ ld' = IdleLd
    /\ UNCHANGED <<made, self, fs_space, handles, th>>

\* for child in res['children']: result.append(child['name'])
listdir_appends(result, res) == result \o res.val.children

\* One turn of listdir's while loop: readdir, the children appended, the end
\* when the page is the last. Past MaxResult names the model stops recording
\* names and requests.
listdir_page(res) ==
    IF res.exc = "OnedataRESTError"
        THEN listdir_ends(raise_to_fserror(res.w, res.err, "None"), <<>>)
    ELSE IF res.exc # "none" THEN listdir_ends(res, <<>>)
    ELSE IF res.val.isLast THEN listdir_ends(res, listdir_appends(ld.result, res))
    ELSE /\ listdir_loops(res.w,
                [ld EXCEPT !.result = IF Len(listdir_appends(@, res)) > MaxResult
                                      THEN @ ELSE listdir_appends(@, res),
                           !.reqs = IF Len(listdir_appends(ld.result, res)) > MaxResult
                                    THEN @ ELSE res.w.reqs,
                           !.token = res.val.nextPageToken,
                           !.turn = 1 - @])
         /\ UNCHANGED last
ListdirPage ==
    /\ ld.pc = "loop"
    /\ \E res \in {readdir([World(ld.script) EXCEPT !.reqs = ld.reqs],
                            split_space_path(ld.path).space,
                            split_space_path(ld.path).path,
                            1000, ld.token, ld.served)} : listdir_page(res)

----------------------------------------------------------------------------
(* Two threads in openbin on the one filesystem object: a thread runs from  *)
(* one call openbin makes to the next, and the other may run in between.    *)

\* A thread took a step of openbin: it raised, or goes on at pc.
thread_moves(t, r, pc, file_id) ==
    /\ InBounds(r.w, handles)
    /\ Leaves(r.w)
    /\ th' = [th EXCEPT ![t] = IF r.exc # "none"
                               THEN [@ EXCEPT !.pc = "done", !.exc = r.exc]
                               ELSE [@ EXCEPT !.pc = pc, !.file_id = file_id]]
    /\ UNCHANGED <<made, self, fs_space, handles, last, ld>>

ThreadCall(t, path, mode) ==
    /\ ld.pc = "idle"
    /\ th[t].pc = "idle"
    /\ th' = [th EXCEPT ![t] = [IdleFrame EXCEPT
                  !.pc = "check", !.path = path, !.mode = mode,
                  !.fresh = TreeAt(remote, split_space_path(path).space,
                                   path.rel) = NoId]]
    /\ UNCHANGED <<remote, cache, made, self, resolved, fs_space, handles, last, ld>>

OpenbinCheck(t) ==
    /\ th[t].pc = "check"
    /\ thread_moves(t, openbin_check(World(NoScript), th[t].path), "missing", NoId)

openbin_missing_ends(t, r) ==
    thread_moves(t, r, IF r.val THEN "parent" ELSE "lookup", NoId)
OpenbinMissing(t) ==
    /\ th[t].pc = "missing"
    /\ openbin_missing_ends(t, openbin_missing(World(NoScript), th[t].path,
                                               th[t].mode))

OpenbinParent(t) ==
    /\ th[t].pc = "parent"
    /\ thread_moves(t, openbin_parent(World(NoScript), th[t].path), "create", NoId)

OpenbinCreate(t) ==
    /\ th[t].pc = "create"
    /\ thread_moves(t, openbin_create(World(NoScript), split_space_path(th[t].path)),
                    "lookup", NoId)

openbin_lookup_ends(t, r) == thread_moves(t, r, "return", r.val)
OpenbinLookup(t) ==
    /\ th[t].pc = "lookup"
    /\ openbin_lookup_ends(t, openbin_lookup(World(NoScript),
                                             split_space_path(th[t].path)))

OpenbinReturn(t) ==
    /\ th[t].pc = "return"
    /\ thread_moves(t, openbin_return(World(NoScript), split_space_path(th[t].path),
                                      th[t].file_id, th[t].mode, th[t].path),
                    "done", th[t].file_id)

\* The threads are joined: the program has what openbin gave each of them.
ThreadsJoin ==
    /\ \A t \in Threads : th[t].pc = "done"
    /\ th' = [t \in Threads |-> IdleFrame]
    /\ UNCHANGED <<remote, cache, made, self, resolved, fs_space, handles, last, ld>>

----------------------------------------------------------------------------
(* Further filesystem objects, each with a client of its own *)

\* The program makes another filesystem object and turns to it, once the one
\* it is at has been used.
NewClient ==
    /\ Idle
    /\ made < NumClients
    /\ LruIndex(cache, <<self, fs_space>>) # 0
    /\ made' = made + 1
    /\ self' = made + 1
    /\ UNCHANGED <<remote, cache, resolved, fs_space, handles, last, ld, th>>

\* The program turns back to its first filesystem object.
BackToFirst ==
    /\ Idle
    /\ self # 1
    /\ LruIndex(cache, <<self, fs_space>>) # 0
    /\ self' = 1
    /\ UNCHANGED <<remote, cache, made, resolved, fs_space, handles, last, ld, th>>

----------------------------------------------------------------------------
(* Specifications *)

PageSizes == 1..Len(Names)

\* The filesystem interface on one space, the service answering in the ordinary.
Next ==
    \/ \E p \in FsPaths : Getinfo(p, NoScript)
    \/ \E p \in FsPaths, n \in PageSizes : ListdirStart(p, NoScript, n)
    \/ ListdirPage
    \/ \E p \in FsPaths, rc \in BOOLEAN : Makedir(p, rc, NoScript)
    \/ \E k \in Slots, p \in FsPaths, m \in Modes : Openbin(k, p, m, NoScript)
    \/ \E p \in FsPaths : Remove(p, NoScript)
    \/ \E p \in FsPaths : Removedir(p, NoScript)
    \/ \E p \in FsPaths, pm \in BOOLEAN : Setinfo(p, pm, NoScript)
    \/ \E p \in FsPaths, q \in FsPaths, ov \in BOOLEAN : Move(p, q, ov, NoScript)
    \/ \E k \in Slots : Read(k, 0 - 1, NoScript)

Spec == Init /\ [][Next]_vars

\* The calls on the handles of one file, with another client appending to it.
NextFile ==
    \/ \E k \in Slots, m \in Modes : Openbin(k, TheFile, m, NoScript)
    \/ Getinfo(TheFile, NoScript)
    \/ \E k \in Slots, n \in ReadSizes : Read(k, n, NoScript)
    \/ \E k \in Slots, d \in WriteData : Write(k, d, NoScript)
    \/ \E k \in Slots, n \in TruncateSizes : Truncate(k, n, NoScript)
    \/ \E k \in Slots, a \in SeekArgs : Seek(k, a, NoScript)
    \/ RemoteAppend(2, 1)

FileSpec == Init /\ [][NextFile]_vars

\* The calls on a handle while its file is moved, removed and made again.
NextMoved ==
    \/ \E k \in Slots \cup {0}, p \in {TheFile, Moved}, m \in {"r+", "w"} :
            Openbin(k, p, m, NoScript)
    \/ \E p \in {TheFile, Moved}, q \in {TheFile, Moved} : Move(p, q, FALSE, NoScript)
    \/ \E p \in {TheFile, Moved} : Remove(p, NoScript)
    \/ \E k \in Slots : Read(k, 0 - 1, NoScript)
    \/ \E k \in Slots : Write(k, <<2>>, NoScript)
    \/ \E k \in Slots, n \in {NoSize, 1} : Truncate(k, n, NoScript)
    \/ \E k \in Slots, a \in {[pos |-> 0, whence |-> SeekSet],
                               [pos |-> 0, whence |-> SeekEnd]} : Seek(k, a, NoScript)

MovedSpec == Init /\ [][NextMoved]_vars

\* The service answers one request of a call with an error response, or the
\* first requests of a call with read timeouts.
ErrorKinds == {"h500", "eacces", "eperm"}
Scripts ==
    {[at |-> a, kind |-> k, cnt |-> 1] : a \in 1..3, k \in ErrorKinds}
    \cup {[at |-> 1, kind |-> "timeout", cnt |-> c] : c \in 1..MaxTimeouts}
FaultPaths == {TheFile, Moved}
NextFault ==
    \/ \E p \in FaultPaths, s \in Scripts : Getinfo(p, s)
    \/ \E p \in FaultPaths, s \in Scripts : GetFileId(p, s)
    \/ \E s \in Scripts : ListdirStart(FsPath(0, <<"d">>), s, 1)
    \/ ListdirPage
    \/ \E s \in Scripts : Makedir(Moved, FALSE, s)
    \/ \E s \in Scripts : Openbin(1, TheFile, "r", s)
    \/ \E p \in FaultPaths, s \in Scripts : Remove(p, s)
    \/ \E s \in Scripts : Removedir(FsPath(0, <<"d">>), s)
    \/ \E p \in FaultPaths, s \in Scripts : Setinfo(p, TRUE, s)
    \/ \E s \in Scripts : Move(TheFile, Moved, FALSE, s)
    \/ \E k \in Slots, s \in Scripts : Read(k, 1, s)

FaultSpec == Init /\ [][NextFault]_vars

\* Two threads open files of the one filesystem object.
NextThread ==
    \/ \E t \in Threads, p \in {TheFile, Moved}, m \in {"r", "w"} : ThreadCall(t, p, m)
    \/ \E t \in Threads : OpenbinCheck(t)
    \/ \E t \in Threads : OpenbinMissing(t)
    \/ \E t \in Threads : OpenbinParent(t)
    \/ \E t \in Threads : OpenbinCreate(t)
    \/ \E t \in Threads : OpenbinLookup(t)
    \/ \E t \in Threads : OpenbinReturn(t)
    \/ ThreadsJoin

ThreadSpec == Init /\ [][NextThread]_vars

\* Directories are listed, the provider serving pages of one size or another;
\* a listing that has begun takes its turns.
NextList ==
    \/ \E p \in FsPaths, n \in PageSizes : ListdirStart(p, NoScript, n)
    \/ ListdirPage
    \/ \E p \in FsPaths : Makedir(p, FALSE, NoScript)
    \/ \E p \in FsPaths : Remove(p, NoScript)
    \/ \E p \in FsPaths : Getinfo(p, NoScript)

ListSpec == Init /\ [][NextList]_vars /\ WF_vars(ListdirPage)

\* The program makes one filesystem object after another on the same space,
\* asks each for the attributes of the space, and comes back to the first.
NextClients ==
    \/ NewClient
    \/ BackToFirst
    \/ Getinfo(FsPath(0, <<>>), NoScript)

ClientsSpec == Init /\ [][NextClients]_vars


\* The tree of one space is changed through the filesystem interface: files
\* and directories are made, opened, moved and removed.
NextTree ==
    \/ \E p \in FsPaths : Getinfo(p, NoScript)
    \/ \E p \in FsPaths, rc \in BOOLEAN : Makedir(p, rc, NoScript)
    \/ \E p \in FsPaths, m \in Modes : Openbin(0, p, m, NoScript)
    \/ \E p \in FsPaths : Remove(p, NoScript)
    \/ \E p \in FsPaths : Removedir(p, NoScript)
    \/ \E p \in FsPaths, q \in FsPaths, ov \in BOOLEAN : Move(p, q, ov, NoScript)

TreeSpec == Init /\ [][NextTree]_vars

\* The service answers one request of a getinfo or of an openbin with an
\* error response of one of the kinds to_fserror has a row for.
MapKinds == {"h404", "h404posix", "h416", "h416posix", "enoent", "eexist", "eaccess", "eperm",
             "enotdir", "badpath"}
MapScripts == {[at |-> a, kind |-> k, cnt |-> 1] : a \in 1..5, k \in MapKinds}
NextMap ==
    \/ \E p \in {TheFile, Moved}, s \in MapScripts : Getinfo(p, s)
    \/ \E m \in {"r", "w"}, s \in MapScripts : Openbin(0, TheFile, m, s)

MapSpec == Init /\ [][NextMap]_vars

\* The filesystem object is made with no space named: the first token of a
\* path names the space.
InitSpaces ==
    /\ remote = [tree |-> [s \in TreeSpaces |->
                             [rel \in RelPaths \ {<<>>} |->
                                 IF s = 1 /\ rel = <<"d">> THEN 1
                                 ELSE IF s = 1 /\ rel = <<"f">> THEN 2
                                 ELSE NoId]],
                 files |-> [i \in 1..MaxId |->
                             IF i = 1 THEN [type |-> "DIR", content |-> <<>>]
                             ELSE IF i = 2 THEN [type |-> "REG", content |-> <<1>>]
                             ELSE [type |-> "NONE", content |-> <<>>]],
                 nextId |-> 3]
    /\ cache = <<>>
    /\ made = 1
    /\ self = 1
    /\ resolved = [s \in TreeSpaces |-> 0]
    /\ fs_space = 0
    /\ handles = [k \in Slots |-> NoHandle]
    /\ last = NoLast
    /\ ld = IdleLd
    /\ th = [t \in Threads |-> IdleFrame]

\* Files are made and removed in the spaces, and moved from one path of a
\* space to another path of that space or of the other.
NextSpaces ==
    \/ \E p \in FsPaths : Getinfo(p, NoScript)
    \/ \E p \in FsPaths, m \in {"r", "w"} : Openbin(0, p, m, NoScript)
    \/ \E p \in FsPaths : Remove(p, NoScript)
    \/ \E p \in FsPaths, q \in FsPaths, ov \in BOOLEAN :
            /\ p # q /\ p.rel # <<>> /\ q.rel # <<>>
            /\ Move(p, q, ov, NoScript)

SpacesSpec == InitSpaces /\ [][NextSpaces]_vars
----------------------------------------------------------------------------
(* Claims *)

HandleOps == {"read", "write", "truncate", "seek"}
Kinds(reqs) == [i \in 1..Len(reqs) |-> reqs[i].kind]

\* C1: every error response of the service during getinfo, listdir, makedir,
\* openbin, remove, removedir, setinfo, move or a read on a handle reaches the
\* caller as a filesystem error (or is answered by the operation, as when
\* exists() finds nothing): no raw REST error and no other exception.
C1_ErrorsReachCallerAsFSError ==
    (/\ last.op \in {"getinfo", "listdir", "makedir", "openbin", "remove",
                     "removedir", "setinfo", "move", "read"}
     /\ \E i \in 1..Len(last.reqs) : last.reqs[i].out = "error")
        => last.exc \in FSErrors \cup {"none"}

\* C2: for a client and a space the provider host is resolved once for the
\* lifetime of the client: the body of get_provider_for_space runs at most
\* once for the first client and each space, whatever else is used in between.
C2_ProviderResolvedOnce ==
    \A s \in TreeSpaces : resolved[s] <= 1

\* C3: a handle addresses the one file id it was opened with: every request
\* of read, write, truncate and seek on it names that id, and the call
\* leaves the id of the handle as it was, wherever the path now leads.
C3_HandleKeepsFileId ==
    last.op \in HandleOps =>
        /\ handles[last.slot].file_id = last.before.file_id
        /\ \A i \in 1..Len(last.reqs) : last.reqs[i].fid = last.before.file_id

\* C3 witness: a read that sent its two requests on a handle opened at f,
\* after the file was moved to d/f and another file was made at f.
C3_Witness ==
    /\ last.op = "read" /\ last.exc = "none" /\ Len(last.reqs) = 2
    /\ last.before.path = TheFile
    /\ TreeAt(remote, 1, <<"d", "f">>) = last.before.file_id
    /\ TreeAt(remote, 1, <<"f">>) \notin {NoId, last.before.file_id}

\* What seek(p) and then read(n) give through a readable handle on the file
\* of handle h, the provider being as it is.
ReadBack(h, p, n) ==
    Bind(seek(World(NoScript), [h EXCEPT !.mode = "r"], p, SeekSet), LAMBDA s :
        read(s.w, s.h, n).val)

\* C4: a write that returns has sent exactly one request, the PUT of its data
\* at the cursor, and has advanced the cursor by the length of the data;
\* seek to the old cursor and read of that length then return the data.
C4_WriteIsOnePutAtCursor ==
    (last.op = "write" /\ last.exc = "none") =>
        /\ Len(last.reqs) = 1
        /\ last.reqs[1].kind = "put"
        /\ last.reqs[1].fid = last.before.file_id
        /\ last.reqs[1].off = last.before.pos
        /\ last.reqs[1].data = last.data
        /\ handles[last.slot].pos = last.before.pos + Len(last.data)
        /\ ReadBack(handles[last.slot], last.before.pos, Len(last.data)) = last.data

\* C4 witness: a write of one byte at cursor 1 over the second byte of a file
\* of two bytes.
C4_Witness ==
    /\ last.op = "write" /\ last.exc = "none"
    /\ last.before.pos = 1 /\ last.data = <<2>>
    /\ last.content = <<1, 1>>
    /\ ContentOf(remote, last.before.file_id) = <<1, 2>>

\* C5: getinfo and every read of a size other than zero ask the provider for
\* the attributes in that call: getinfo reports the size the file has now, and
\* read returns the bytes from the cursor (a position, not below zero) that
\* the file has now, those appended by another client since the handle was
\* opened among them.
C5_SizeFetchedAtEachCall ==
    /\ (last.op = "getinfo" /\ last.exc = "none") =>
          /\ last.reqs[Len(last.reqs)].kind = "attrs"
          /\ last.arg = Len(ContentOf(remote, TreeAt(remote, fs_space, last.path.rel)))
    /\ (last.op = "read" /\ Reading(last.before.mode) /\ last.arg # 0) =>
          /\ Len(last.reqs) >= 1
          /\ last.reqs[1].kind = "attrs"
          /\ last.reqs[1].fid = last.before.file_id
          /\ (last.exc = "none" /\ last.before.pos >= 0) =>
                last.ret = SubSeq(last.content, last.before.pos + 1,
                                  IF last.arg < 0 THEN Len(last.content)
                                  ELSE Min(Len(last.content),
                                           last.before.pos + last.arg))

\* C5 witness: a read returns the byte another client appended after the
\* handle was opened.
C5_Witness ==
    /\ last.op = "read" /\ last.exc = "none"
    /\ last.before.grown
    /\ Len(last.ret) >= 1
    /\ last.before.pos + Len(last.ret) = Len(last.content)
    /\ Len(last.content) = 2

\* C6 as stated: an operation that returns has sent exactly
\* one request.
C6_OneRequestPerOperation ==
    (/\ last.op \in {"getinfo", "listdir", "makedir", "openbin", "remove",
                     "removedir", "setinfo", "move", "read", "write"}
     /\ last.exc = "none")
        => Len(last.reqs) = 1

\* C6, amended: an operation is a sequence of stateless requests: only a
\* write is a single request (the PUT); getinfo of a path is the lookup of the
\* file id and then the GET of the attributes; a read is nothing (size 0), or
\* the GET of the attributes and then at most one ranged GET; openbin of a
\* file that exists is five requests, two more in the modes that create and
\* one more in append mode.
C6_RequestsPerOperation ==
    last.exc = "none" =>
        /\ last.op = "write" => Kinds(last.reqs) = <<"put">>
        /\ last.op = "getinfo" => Kinds(last.reqs) = <<"lookup", "attrs">>
        /\ last.op = "read" =>
              Kinds(last.reqs) \in {<<>>, <<"attrs">>, <<"attrs", "content">>}
        /\ last.op = "openbin" =>
              Len(last.reqs) = 5 + (IF Creating(last.data[1]) THEN 2 ELSE 0)
                                 + (IF Appending(last.data[1]) THEN 1 ELSE 0)

\* C6 witness: a getinfo that returned after its two requests.
C6_Witness ==
    /\ last.op = "getinfo" /\ last.exc = "none"
    /\ Kinds(last.reqs) = <<"lookup", "attrs">>

\* C7: get_file_id sends at most 1 + 3 lookups; it sends another only after a
\* read timeout; it raises the timeout exactly when the fourth lookup timed
\* out; the first lookup that does not time out ends the call, with the file
\* id when it was served and with the error at once when it was refused.
C7_RetryBounded ==
    last.op = "get_file_id" =>
        /\ Len(last.reqs) >= 1
        /\ Len(last.reqs) <= DefaultRetries + 1
        /\ \A i \in 1..Len(last.reqs) : last.reqs[i].kind = "lookup"
        /\ \A i \in 1..(Len(last.reqs) - 1) : last.reqs[i].out = "timeout"
        /\ last.reqs[Len(last.reqs)].out = "timeout" =>
              Len(last.reqs) = DefaultRetries + 1 /\ last.exc = "ReadTimeout"
        /\ last.reqs[Len(last.reqs)].out = "ok" =>
              /\ last.exc = "none"
              /\ last.arg = TreeAt(remote, fs_space, last.path.rel)
        /\ last.reqs[Len(last.reqs)].out = "error" => last.exc = "OnedataRESTError"

\* C7 witness: three timeouts, and the fourth lookup returns the file id.
C7_Witness ==
    /\ last.op = "get_file_id" /\ last.exc = "none"
    /\ Len(last.reqs) = DefaultRetries + 1
    /\ last.arg # NoId

\* C8: two threads that call openbin(path, 'w') for a path that does not
\* exist, in a directory that does, both return a handle to the one file
\* that was made, however their steps interleave.
C8_ConcurrentOpenbinCreates ==
    (\A t \in Threads : /\ th[t].pc = "done" /\ th[t].path = Moved
                        /\ th[t].mode = "w" /\ th[t].fresh)
        => /\ \A t \in Threads : th[t].exc = "none" /\ th[t].file_id # NoId
           /\ th[1].file_id = th[2].file_id
           /\ remote.nextId = 4

\* C9: a listdir that has entered its loop leaves it.
C9_ListdirTerminates ==
    (ld.pc = "loop") ~> (ld.pc = "idle")

\* size bytes of content c: its first bytes, or all of it and zeros after
Truncated(c, size) ==
    IF size <= Len(c) THEN SubSeq(c, 1, size) ELSE c \o Zeros(size - Len(c))

\* C10: truncate(size) on a handle opened for writing, readable or not,
\* returns and leaves the file with size bytes (the cursor's value when size
\* is omitted): its first size bytes as they were, zeros after its old end.
C10_TruncateSetsSize ==
    (/\ last.op = "truncate"
     /\ Writing(last.before.mode)
     /\ (IF last.arg = NoSize THEN last.before.pos ELSE last.arg) >= 0)
        => /\ last.exc = "none"
           /\ ContentOf(remote, last.before.file_id) =
                  Truncated(last.content,
                            IF last.arg = NoSize THEN last.before.pos ELSE last.arg)


\* The type of what a path of the filesystem leads to in the provider's tree:
\* "DIR", "REG", or "NONE" when the path does not resolve.
TypeAt(rem, path) ==
    IF split_space_path(path).exc # "none" THEN "DIR"
    ELSE IF Walk(rem, split_space_path(path).space, path.rel, 1) # "ok" THEN "NONE"
    ELSE TypeOf(rem, TreeAt(rem, split_space_path(path).space, path.rel))

\* The call recorded in last' was refused with a filesystem error before any
\* DELETE was sent, and the provider's tree is as it was.
RejectedBeforeDelete ==
    /\ last'.exc \in FSErrors
    /\ \A i \in 1..Len(last'.reqs) : last'.reqs[i].kind # "delete"
    /\ remote' = remote

\* C11: remove of a directory, removedir of what is not a directory, and
\* either call on a path that does not exist are rejected with a filesystem
\* error before any DELETE is sent and leave the tree unchanged; removedir
\* of the root never sends a DELETE.
C11_RemoveChecksType ==
    [][\A p \in {last'.path} :
        /\ Remove(p, NoScript) =>
              (TypeAt(remote, p) # "REG" => RejectedBeforeDelete)
        /\ Removedir(p, NoScript) =>
              /\ TypeAt(remote, p) # "DIR" => RejectedBeforeDelete
              /\ p.rel = <<>> =>
                    \A i \in 1..Len(last'.reqs) : last'.reqs[i].kind # "delete"]_vars

\* The error response the script of the last call put in place of an answer.
ScriptedError == ScriptErr(last.script.kind)

\* The last call handed the scripted error to to_fserror as the error of an
\* attribute fetch: a getinfo one of whose requests was refused.
MappedAsAttributeFetch ==
    /\ last.op = "getinfo"
    /\ Len(last.reqs) = last.script.at
    /\ last.reqs[Len(last.reqs)].out = "error"

\* The last call handed the scripted error to to_fserror with no request
\* named: an openbin whose own lookup of the file id was refused.
MappedAsOther ==
    /\ last.op = "openbin"
    /\ Len(last.reqs) = last.script.at
    /\ last.reqs[Len(last.reqs)].out = "error"
    /\ last.reqs[Len(last.reqs)].kind = "lookup"
    /\ Len(last.reqs) > 4

\* C12: the error mapping, row by row and in order: 404 gives
\* ResourceNotFound whatever the body; 416 gives the generic FSError; posix
\* gives ResourceNotFound for enoent, FileExists for eexist, PermissionDenied
\* for eaccess and eperm, and for enotdir ResourceNotFound after an attribute
\* fetch and DirectoryExpected otherwise; badValueFilePath gives
\* InvalidCharsInPath.
C12_ErrorMappingTable ==
    (MappedAsAttributeFetch \/ MappedAsOther) =>
        LET e == ScriptedError
            plain == e.http_code \notin {404, 416}
            posix(errno) == plain /\ e.error_category = "posix" /\ e.errno = errno
        IN  /\ e.http_code = 404 => last.exc = "ResourceNotFound"
            /\ e.http_code = 416 => last.exc = "FSError"
            /\ posix("enoent") => last.exc = "ResourceNotFound"
            /\ posix("eexist") => last.exc = "FileExists"
            /\ posix("eaccess") => last.exc = "PermissionDenied"
            /\ posix("eperm") => last.exc = "PermissionDenied"
            /\ (posix("enotdir") /\ MappedAsAttributeFetch)
                  => last.exc = "ResourceNotFound"
            /\ (posix("enotdir") /\ MappedAsOther)
                  => last.exc = "DirectoryExpected"
            /\ (plain /\ e.error_category = "badValueFilePath")
                  => last.exc = "InvalidCharsInPath"

\* C12 witness: an openbin whose lookup was refused with posix enotdir and
\* that raised DirectoryExpected.
C12_Witness ==
    /\ MappedAsOther
    /\ last.script.kind = "enotdir"
    /\ last.exc = "DirectoryExpected"

\* The number of bytes read(n) is to return at cursor p of a file of s bytes.
ReadLength(p, s, n) ==
    IF p >= s THEN 0 ELSE IF n < 0 THEN s - p ELSE Min(n, s - p)

\* C13: read(n) on a handle opened for reading, at cursor p (a position, not
\* below zero) of a file of s bytes, returns the bytes [p, p + min(n, s - p))
\* of the file, to its end when n < 0, and advances the cursor by their
\* number; when n = 0 or p >= s it returns no bytes, sends no content request
\* and leaves the cursor; on a handle not opened for reading it raises
\* IOError, sends no request and leaves the cursor.
C13_ReadReturnsRange ==
    last.op = "read" =>
        LET p == last.before.pos
            s == Len(last.content)
            n == last.arg
        IN  /\ ~Reading(last.before.mode) =>
                  /\ last.exc = "IOError"
                  /\ last.reqs = <<>>
                  /\ handles[last.slot].pos = p
            /\ (Reading(last.before.mode) /\ p >= 0) =>
                  /\ last.exc = "none"
                  /\ last.ret = SubSeq(last.content, p + 1, p + ReadLength(p, s, n))
                  /\ handles[last.slot].pos = p + Len(last.ret)
                  /\ (n = 0 \/ p >= s) =>
                        /\ last.ret = <<>>
                        /\ \A i \in 1..Len(last.reqs) : last.reqs[i].kind # "content"
                        /\ handles[last.slot].pos = p

\* C13 witness: read(1) at cursor 0 of a file of two bytes returns the first
\* byte and leaves the cursor at 1.
C13_Witness ==
    /\ last.op = "read" /\ last.exc = "none"
    /\ last.arg = 1 /\ last.before.pos = 0
    /\ Len(last.content) = 2
    /\ last.ret = <<last.content[1]>>
    /\ handles[last.slot].pos = 1

\* The requests of the call recorded in last' that ask for a file to be made.
CreateRequests == {i \in 1..Len(last'.reqs) : last'.reqs[i].kind = "create"}

\* C14 as stated: openbin of a missing path in a mode with 'w' or 'a' makes
\* exactly one regular file when the parent directory exists, and raises
\* ResourceNotFound, making nothing, when the parent does not exist; in a
\* mode that only reads it sends no create request and raises
\* ResourceNotFound for a missing path; for a directory it raises
\* FileExpected in every mode and makes nothing.
C14_OpenbinCreatesOnlyToWrite ==
    [][\A p \in {last'.path}, m \in Modes : Openbin(0, p, m, NoScript) =>
        /\ (Creating(m) /\ TypeAt(remote, p) = "NONE"
                /\ TypeAt(remote, dirname(p)) = "DIR") =>
              /\ last'.exc = "none"
              /\ Cardinality(CreateRequests) = 1
              /\ remote'.nextId = remote.nextId + 1
              /\ TypeAt(remote', p) = "REG"
        /\ (Creating(m) /\ TypeAt(remote, p) = "NONE"
                /\ TypeAt(remote, dirname(p)) = "NONE") =>
              /\ last'.exc = "ResourceNotFound"
              /\ remote' = remote
        /\ ~Creating(m) =>
              /\ CreateRequests = {}
              /\ TypeAt(remote, p) = "NONE" => last'.exc = "ResourceNotFound"
        /\ TypeAt(remote, p) = "DIR" =>
              /\ last'.exc = "FileExpected"
              /\ remote' = remote]_vars


\* The requests of the call recorded in last' that ask for a move.
MoveRequests == {i \in 1..Len(last'.reqs) : last'.reqs[i].kind = "move"}

\* The call recorded in last' raised exc, sent no move request and left the
\* provider's tree as it was.
RefusedBeforeMove(exc) ==
    /\ last'.exc = exc
    /\ MoveRequests = {}
    /\ remote' = remote

\* C15: move(src, dst, overwrite) raises ResourceNotFound when src or the
\* parent of dst is missing, FileExpected when src is a directory,
\* DestinationExists when dst exists and overwrite is false, each with no move
\* request sent and the tree unchanged; otherwise it sends exactly one move
\* request, after which src is gone and dst holds the content src had, within
\* a space and from one space to another.
C15_MoveValidatesThenMoves ==
    [][\A p \in {last'.path}, q \in FsPaths, ov \in BOOLEAN :
        Move(p, q, ov, NoScript) =>
            IF TypeAt(remote, p) = "NONE" \/ TypeAt(remote, dirname(q)) = "NONE"
                THEN RefusedBeforeMove("ResourceNotFound")
            ELSE IF TypeAt(remote, p) = "DIR"
                THEN RefusedBeforeMove("FileExpected")
            ELSE IF TypeAt(remote, q) # "NONE" /\ ~ov
                THEN RefusedBeforeMove("DestinationExists")
            ELSE /\ last'.exc = "none"
                 /\ Cardinality(MoveRequests) = 1
                 /\ TypeAt(remote', p) = "NONE"
                 /\ TypeAt(remote', q) = "REG"
                 /\ ContentOf(remote', TreeAt(remote', split_space_path(q).space, q.rel))
                        = ContentOf(remote, TreeAt(remote, split_space_path(p).space,
                                                   p.rel))]_vars

\* C16: the cursor of a handle is never negative, whatever seek, read, write
\* and truncate calls were made on it, failed ones among them: every ranged
\* GET and every PUT at an offset that the handle sends names an offset >= 0,
\* and a seek refused with ValueError leaves the cursor where it was.
C16_CursorNeverNegative ==
    /\ \A k \in Slots : handles[k].open => handles[k].pos >= 0
    /\ last.op \in HandleOps =>
          \A i \in 1..Len(last.reqs) :
              (last.reqs[i].kind \in {"content", "put"} /\ last.reqs[i].off # NoOffset)
                  => last.reqs[i].off >= 0
    /\ (last.op = "seek" /\ last.exc = "ValueError") =>
          handles[last.slot].pos = last.before.pos
====
